---- MODULE Spec2Model ----
(***************************************************************************)
(* Exterior-ballistics core of BallisticsAppV2 (src/lib/ballistics.ts).    *)
(*                                                                         *)
(* The program computes in IEEE-754 doubles.  The model computes in        *)
(* fixed point: every quantity is an integer count of a named unit, and    *)
(* every product or quotient is rounded to the nearest unit.  The two      *)
(* values of a double that are not numbers of the trajectory, NaN and      *)
(* -Infinity, are kept as two reserved values outside the numeric range.   *)
(*                                                                         *)
(*   velocity        1e-6 m/s   (VelScale per m/s)                         *)
(*   position        1e-4 m     (PosScale per m)                           *)
(*   time            1e-6 s     (TimeScale per s)                          *)
(*   acceleration    1e-4 m/s^2 (AccScale per m/s^2)                       *)
(*   Mach            1e-4       (MachScale)                                *)
(*   Cd (table)      1e-4, interpolated 1e-6                               *)
(*   BC              1e-3                                                  *)
(*   air density     1e-4 kg/m^3                                           *)
(*   speed of sound  1e-2 m/s                                              *)
(*   launch angle    0.01/2^30 rad (half a bisection unit)                 *)
(***************************************************************************)
EXTENDS Integers, Sequences, FiniteSets, TLC

\* ------------------------------------------------------------------------
\* Units of the fixed-point representation of `number`
\* ------------------------------------------------------------------------
VelScale  == 10^6
PosScale  == 10^4
TimeScale == 10^6
AccScale  == 10^4
MachScale == 10^4
CdScale   == 10^6
BcScale   == 10^3
RhoScale  == 10^4
SoundScale == 10^2

\* Largest divisor for which the two-limb product below stays inside 32 bits
LimbMax == 5 * 2^13

\* The values of a double that are not finite numbers
NumLimit == 2 * 10^9
NaN      == NumLimit + 1
NegInf   == -(NumLimit + 1)
IsNaN(a)    == a = NaN
IsFinite(a) == a # NaN /\ a # NegInf
\* a < b and a >= b as JavaScript compares: false when either side is NaN
Lt(a, b) == a # NaN /\ b # NaN /\ a < b
Ge(a, b) == a # NaN /\ b # NaN /\ a >= b

Abs(a) == IF a < 0 THEN -a ELSE a
Sgn(a) == IF a < 0 THEN -1 ELSE 1
Max2(a, b) == IF a >= b THEN a ELSE b

\* a / c rounded to the nearest integer, halves away from zero (c > 0)
RDiv(a, c) == Sgn(a) * ((Abs(a) + c \div 2) \div c)

\* Exact a * b = q * c + r by binary long multiplication, for any 0 <= a, b
\* and c > 0 below 2^31 (no intermediate value leaves 32 bits)
RECURSIVE MulDivQR(_, _, _, _)
MulDivQR(qa, ra, b, c) ==
  IF b = 0 THEN <<0, 0>>
  ELSE LET h  == MulDivQR(qa, ra, b \div 2, c)
           up == h[2] >= c - h[2]
           q2 == 2 * h[1] + (IF up THEN 1 ELSE 0)
           r2 == IF up THEN h[2] - (c - h[2]) ELSE 2 * h[2]
       IN IF b % 2 = 0 THEN <<q2, r2>>
          ELSE IF r2 >= c - ra THEN <<q2 + qa + 1, r2 - (c - ra)>>
               ELSE <<q2 + qa, r2 + ra>>

\* round(a * b / c) for 0 <= a, b and c > 0
MulDivU(a, b, c) ==
  IF c <= LimbMax
  THEN (a \div c) * b + (a % c) * (b \div c)
       + ((a % c) * (b % c) + c \div 2) \div c
  ELSE LET h == MulDivQR(a \div c, a % c, b, c)
       IN h[1] + (IF h[2] >= c - h[2] THEN 1 ELSE 0)

\* round(a * b / c) for any signs of a and b, c > 0
MulDiv(a, b, c) == Sgn(a) * Sgn(b) * MulDivU(Abs(a), Abs(b), c)

\* a * b / c for |b| <= c with c of any size, through divisors below LimbMax:
\* c is taken as cq * q (relative error below 1/LimbMax)
RatioMul(a, b, c) ==
  LET q  == c \div LimbMax + 1
      cq == RDiv(c, q)
      ua == Abs(a)
      ub == Abs(b)
  IN Sgn(a) * Sgn(b)
     * (MulDivU(ua \div q, ub, cq) + MulDivU(ua % q, ub, q) \div cq)

\* floor(sqrt(n)) by Newton's iteration from a guess g >= sqrt(n)
RECURSIVE Newton(_, _)
Newton(n, g) ==
  LET g2 == (g + n \div g) \div 2
  IN IF g2 >= g THEN g ELSE Newton(n, g2)
Isqrt(n) == IF n = 0 THEN 0 ELSE Newton(n, IF n < 2^16 THEN n ELSE 2^16)

\* Math.sqrt(a*a + b*b + c*c).  A first value n0 comes from the components
\* scaled by q so that the sum of squares stays inside 32 bits; one Newton
\* step, n0 + (a*a + b*b + c*c - n0*n0) / (2*n0), written with the largest
\* component as (m - n0)(m + n0), makes it exact to the unit.
\* 0 only when all three components are 0
NormQ == 26 * 10^3
Norm3(a, b, c) ==
  LET ua == Abs(a)
      ub == Abs(b)
      uc == Abs(c)
      m  == Max2(ua, Max2(ub, uc))
      q  == m \div NormQ + 1
      n0 == Max2(1, q * Isqrt((ua \div q) * (ua \div q) + (ub \div q) * (ub \div q)
                              + (uc \div q) * (uc \div q)))
      \* the two components other than (one occurrence of) the largest
      rest == IF ua = m THEN RatioMul(ub, ub, n0) + RatioMul(uc, uc, n0)
              ELSE IF ub = m THEN RatioMul(ua, ua, n0) + RatioMul(uc, uc, n0)
              ELSE RatioMul(ua, ua, n0) + RatioMul(ub, ub, n0)
  IN IF m = 0 THEN 0
     ELSE Max2(1, n0 + RDiv(RatioMul(m - n0, m + n0, n0) + rest, 2))


\* ------------------------------------------------------------------------
\* Physical constants (ballistics.ts 33-52)
\* ------------------------------------------------------------------------
\* 9.81 m/s^2 in AccScale units
GRAVITY == 98100
\* 0.0000648 kg per grain, in 1e-7 kg
GRAINS_TO_KG == 648
\* 1.225 kg/m^3 in RhoScale units
STANDARD_AIR_DENSITY == 12250
\* 0.000871 in 1e-6
DRAG_CONSTANT == 871

\* ------------------------------------------------------------------------
\* Drag tables: <<Mach * 1e4, Cd * 1e4>>, ascending by Mach
\* ------------------------------------------------------------------------
G1_DRAG_TABLE == <<
  <<0, 2629>>, <<500, 2558>>, <<1000, 2487>>, <<1500, 2413>>, <<2000, 2344>>,
  <<2500, 2278>>, <<3000, 2214>>, <<3500, 2155>>, <<4000, 2104>>, <<4500, 2061>>,
  <<5000, 2032>>, <<5500, 2020>>, <<6000, 2034>>, <<6500, 2165>>, <<7000, 2230>>,
  <<7500, 2313>>, <<8000, 2417>>, <<8500, 2546>>, <<9000, 2706>>, <<9250, 2859>>,
  <<9500, 3052>>, <<9750, 3290>>, <<10000, 3576>>, <<10250, 3917>>, <<10500, 4243>>,
  <<10750, 4511>>, <<11000, 4729>>, <<11250, 4891>>, <<11500, 5014>>, <<11750, 5107>>,
  <<12000, 5180>>, <<12500, 5278>>, <<13000, 5338>>, <<13500, 5373>>, <<14000, 5392>>,
  <<14500, 5398>>, <<15000, 5396>>, <<15500, 5386>>, <<16000, 5372>>, <<16500, 5355>>,
  <<17000, 5336>>, <<17500, 5315>>, <<18000, 5294>>, <<18500, 5272>>, <<19000, 5250>>,
  <<19500, 5228>>, <<20000, 5206>>, <<20500, 5183>>, <<21000, 5162>>, <<21500, 5141>>,
  <<22000, 5121>>, <<22500, 5101>>, <<23000, 5081>>, <<23500, 5062>>, <<24000, 5043>>,
  <<24500, 5025>>, <<25000, 5007>>, <<26000, 4973>>, <<27000, 4940>>, <<28000, 4909>>,
  <<29000, 4880>>, <<30000, 4852>>, <<31000, 4825>>, <<32000, 4800>>, <<33000, 4775>>,
  <<34000, 4752>>, <<35000, 4729>>, <<36000, 4708>>, <<37000, 4687>>, <<38000, 4667>>,
  <<39000, 4648>>, <<40000, 4629>>, <<42000, 4594>>, <<44000, 4561>>, <<46000, 4531>>,
  <<48000, 4502>>, <<50000, 4474>>
>>

G7_DRAG_TABLE == <<
  <<0, 1198>>, <<500, 1197>>, <<1000, 1196>>, <<1500, 1194>>, <<2000, 1193>>,
  <<2500, 1194>>, <<3000, 1194>>, <<3500, 1194>>, <<4000, 1193>>, <<4500, 1193>>,
  <<5000, 1194>>, <<5500, 1193>>, <<6000, 1194>>, <<6500, 1197>>, <<7000, 1202>>,
  <<7250, 1207>>, <<7500, 1215>>, <<7750, 1226>>, <<8000, 1242>>, <<8250, 1266>>,
  <<8500, 1306>>, <<8750, 1368>>, <<9000, 1464>>, <<9250, 1660>>, <<9500, 2054>>,
  <<9750, 2993>>, <<10000, 3803>>, <<10250, 4015>>, <<10500, 4043>>, <<10750, 4034>>,
  <<11000, 4014>>, <<11250, 3987>>, <<11500, 3955>>, <<12000, 3884>>, <<12500, 3810>>,
  <<13000, 3732>>, <<13500, 3657>>, <<14000, 3580>>, <<15000, 3440>>, <<15500, 3376>>,
  <<16000, 3315>>, <<16500, 3260>>, <<17000, 3209>>, <<17500, 3160>>, <<18000, 3117>>,
  <<18500, 3078>>, <<19000, 3042>>, <<19500, 3010>>, <<20000, 2980>>, <<20500, 2951>>,
  <<21000, 2922>>, <<21500, 2892>>, <<22000, 2864>>, <<22500, 2835>>, <<23000, 2807>>,
  <<23500, 2779>>, <<24000, 2752>>, <<24500, 2725>>, <<25000, 2697>>, <<25500, 2670>>,
  <<26000, 2643>>, <<26500, 2615>>, <<27000, 2588>>, <<27500, 2561>>, <<28000, 2533>>,
  <<28500, 2506>>, <<29000, 2479>>, <<29500, 2451>>, <<30000, 2424>>, <<35000, 2122>>,
  <<40000, 1875>>, <<45000, 1669>>, <<50000, 1497>>
>>

\* ------------------------------------------------------------------------
\* Drag coefficient lookup.  mach in MachScale units, result in CdScale units
\* ------------------------------------------------------------------------
TableCd == CdScale \div 10^4

RECURSIVE InterpolateFrom(_, _, _)
InterpolateFrom(mach, table, i) ==
  IF i > Len(table) - 1 THEN table[Len(table)][2] * TableCd
  ELSE LET m1  == table[i][1]
           cd1 == table[i][2]
           m2  == table[i + 1][1]
           cd2 == table[i + 1][2]
       IN IF mach >= m1 /\ mach <= m2
          THEN cd1 * TableCd + RDiv((mach - m1) * ((cd2 - cd1) * TableCd), m2 - m1)
          ELSE InterpolateFrom(mach, table, i + 1)

\* a faulty variant: no clamping, the first and the last segment are
\* extended beyond the table
InterpolateExtrapolating(mach, table) ==
  LET n  == Len(table)
      lo == IF mach <= table[1][1] THEN 1
            ELSE IF mach >= table[n][1] THEN n - 1 ELSE 0
  IN IF lo = 0 THEN InterpolateFrom(mach, table, 1)
     ELSE table[lo][2] * TableCd
          + RDiv((mach - table[lo][1]) * ((table[lo + 1][2] - table[lo][2]) * TableCd),
                 table[lo + 1][1] - table[lo][1])

interpolateDragTable(mach, table) ==
  IF mach <= table[1][1] THEN table[1][2] * TableCd
  ELSE IF mach >= table[Len(table)][1] THEN table[Len(table)][2] * TableCd
  ELSE InterpolateFrom(mach, table, 1)

getG1DragCoefficient(mach) == interpolateDragTable(mach, G1_DRAG_TABLE)
getG7DragCoefficient(mach) == interpolateDragTable(mach, G7_DRAG_TABLE)
getDragCoefficient(mach, model) ==
  IF model = "g7" THEN getG7DragCoefficient(mach) ELSE getG1DragCoefficient(mach)

\* ------------------------------------------------------------------------
\* Velocity-band BC.  An optional field of the ammunition that is absent is
\* Undefined; bcBands is [defined, bands], bands a sequence of
\* [velocityThreshold (VelScale), bc (BcScale)]
\* ------------------------------------------------------------------------
Undefined == NumLimit + 2
NoBands   == [defined |-> FALSE, bands |-> << >>]
Bands(s)  == [defined |-> TRUE, bands |-> s]

\* a faulty variant: the comparison with the threshold is strict
RECURSIVE FirstBandStrict(_, _, _)
FirstBandStrict(bands, velocity, i) ==
  IF i > Len(bands) THEN bands[Len(bands)].bc
  ELSE IF Lt(bands[i].velocityThreshold, velocity) THEN bands[i].bc
  ELSE FirstBandStrict(bands, velocity, i + 1)

RECURSIVE FirstBand(_, _, _)
FirstBand(bands, velocity, i) ==
  IF i > Len(bands) THEN bands[Len(bands)].bc
  ELSE IF Ge(velocity, bands[i].velocityThreshold) THEN bands[i].bc
  ELSE FirstBand(bands, velocity, i + 1)

\* a faulty variant: the G7 BC is never used
getBCWithoutG7(ammo, velocity, model) ==
  IF ammo.bcBands.defined /\ Len(ammo.bcBands.bands) > 0
  THEN FirstBand(ammo.bcBands.bands, velocity, 1)
  ELSE ammo.ballisticCoefficient

getBCForVelocity(ammo, velocity, model) ==
  IF ammo.bcBands.defined /\ Len(ammo.bcBands.bands) > 0
  THEN FirstBand(ammo.bcBands.bands, velocity, 1)
  ELSE IF model = "g7" /\ ammo.bcG7 # Undefined THEN ammo.bcG7
  ELSE ammo.ballisticCoefficient

\* ------------------------------------------------------------------------
\* Atmospheric model.  temperature in 0.01 deg C, pressure in Pa (0.01 hPa),
\* humidity in 0.01
\* ------------------------------------------------------------------------
TempScale == 10^2
HumScale  == 10^2
ExpScale  == 10^5

\* round(sqrt(n))
SqrtR(n) == LET s == Isqrt(n) IN IF n - s * s > s THEN s + 1 ELSE s

\* 331.3 * sqrt(1 + T / 273.15), in SoundScale units (cm/s)
getSpeedOfSound(temperature) ==
  SqrtR(MulDiv(33130 * 33130, 27315 + temperature, 27315))

\* Math.exp for x >= 0 (ExpScale units): the Taylor sum, term by term
RECURSIVE ExpSum(_, _, _)
ExpSum(x, term, k) ==
  IF term = 0 THEN 0
  ELSE term + ExpSum(x, MulDiv(term, x, k * ExpScale), k + 1)
\* Math.exp(x), x and the result in ExpScale units
Exp(x) ==
  IF x >= 0 THEN ExpSum(x, ExpScale, 1)
  ELSE MulDiv(ExpScale, ExpScale, ExpSum(-x, ExpScale, 1))

\* Saturation vapour pressure (Buck 1981), in 0.01 Pa
SaturationVapourPressure(temperature) ==
  LET f1 == 1867800 - MulDiv(temperature, 10^4, 2345)
      a  == MulDiv(f1, temperature, 25714 + temperature)
  IN MulDiv(61121, Exp(a), ExpScale)

\* Air density in RhoScale units
calculateAirDensity(env) ==
  LET T  == env.temperature + 27315
      P  == env.pressure * 100
      es == SaturationVapourPressure(env.temperature)
      e  == MulDiv(env.humidity, es, HumScale)
      Pd == P - e
      RdT == MulDiv(287058, T, 10^3)
      RvT == MulDiv(461495, T, 10^3)
  IN MulDiv(Pd, RhoScale, RdT) + MulDiv(e, RhoScale, RvT)

\* ------------------------------------------------------------------------
\* Drag deceleration magnitude, in AccScale units.
\* velocity in VelScale units, bc in BcScale units
\* ------------------------------------------------------------------------
calculateDrag(velocity, bc, airDensity, speedOfSound, dragModel) ==
  LET mach == RDiv(velocity, speedOfSound)
      cd   == getDragCoefficient(mach, dragModel)
      vmm  == RDiv(velocity, 10^3)
      v2   == RDiv(MulDivU(vmm, vmm, 10^4), 10)
      kv2  == MulDiv(v2, DRAG_CONSTANT, 10^4)
      kr   == MulDiv(kv2, airDensity, STANDARD_AIR_DENSITY)
  IN MulDiv(MulDiv(kr, RDiv(cd, 10), 10^2), 10, bc)

\* a faulty variant: the drag is lost when it is split into components
DragComponentDropped(drag, component, v) ==
  IF v = 0 THEN NaN ELSE 0

\* drag * component / v as the code divides: 0 / 0 is NaN
DragComponent(drag, component, v) ==
  IF v = 0 THEN NaN ELSE RatioMul(drag, component, v)

\* ------------------------------------------------------------------------
\* Launch angle: the bisection bracket [0, 0.02] rad is [0, AngleHigh] in
\* units of 0.02/2^30 rad; an angle handed to the integrators is low + high,
\* twice the midpoint, in units of 0.01/2^30 rad
\* ------------------------------------------------------------------------
AngleHigh == 2^30

\* the angle in 1e-9 rad: a * 1e7 / 2^30 = a * 625 * 125 / (2^12 * 2^11)
NanoRad(a) == MulDiv(MulDiv(a, 625, 2^12), 125, 2^11)

\* v0 * Math.sin(angle): v0 * (t - t^3/6), v0 in mm/s, result in VelScale units
V0Sin(v0, a) ==
  LET t9 == NanoRad(a)
      t6 == RDiv(t9, 10^3)
      lin == MulDiv(v0, t9 \div 10^3, 10^3) + RDiv(v0 * (t9 % 10^3), 10^6)
      cub == RDiv(MulDiv(MulDiv(lin, t6, 10^4), t6, 10^4), 6 * 10^4)
  IN lin - cub

\* v0 * Math.cos(angle): v0 * (1 - t^2/2), v0 in mm/s, result in VelScale units
V0Cos(v0, a) ==
  LET t6 == RDiv(NanoRad(a), 10^3)
  IN v0 * 10^3 - RDiv(MulDiv(MulDiv(v0, t6, 10^4), t6, 10^4), 20)
\* ------------------------------------------------------------------------
\* Wind direction: Math.sin / Math.cos of windAngle degrees, times 10^6,
\* for the multiples of 15 degrees
\* ------------------------------------------------------------------------
SinTable == <<0, 258819, 500000, 707107, 866025, 965926, 10^6>>
SinDeg(d) ==
  LET r == d % 360
  IN IF r <= 90 THEN SinTable[r \div 15 + 1]
     ELSE IF r <= 180 THEN SinTable[(180 - r) \div 15 + 1]
     ELSE IF r <= 270 THEN -SinTable[(r - 180) \div 15 + 1]
     ELSE -SinTable[(360 - r) \div 15 + 1]
CosDeg(d) == SinDeg(d + 90)

\* ------------------------------------------------------------------------
\* JavaScript number semantics used by the integrators
\* ------------------------------------------------------------------------
\* Math.round(a / c) for even c: floor(a / c + 0.5)
JsRound(a, c) == IF a = NaN THEN NaN ELSE (a + c \div 2) \div c
\* velocity change acc * dt: acc in AccScale units, dt in microseconds
DeltaV(acc, dt) == IF acc = NaN THEN NaN ELSE RDiv(acc, AccScale \div dt)
\* position change v * dt: v in VelScale units, dt in microseconds
DeltaX(v, dt) == IF v = NaN THEN NaN ELSE RDiv(v, (10^8) \div dt)
Sub(a, b) == IF a = NaN \/ b = NaN THEN NaN ELSE a - b
Add(a, b) == IF a = NaN \/ b = NaN THEN NaN ELSE a + b
\* heights: every height below -FallLimit is carried as NegInf
FallLimit == 5 * 10^7
AddY(a, b) ==
  IF a = NaN \/ b = NaN THEN NaN
  ELSE IF a = NegInf \/ a + b < -FallLimit THEN NegInf
  ELSE a + b

\* ------------------------------------------------------------------------
\* Time steps and limits of the integrators (microseconds)
\* ------------------------------------------------------------------------
DT_COARSE == 1000
DT_FINE == 500
TIME_CAP == 5 * TimeScale
ZERO_ITERATIONS == 30

\* profile.dragModel || 'g1'
EffectiveDragModel(p) == IF p.dragModel = "undefined" THEN "g1" ELSE p.dragModel

\* The loop body of simulateTrajectoryForZero, innermost statement first:
\* x += vx * dt; y += vy * dt for the updated velocity
SimAdvance(s, vx1, vy1) ==
  [x |-> Add(s.x, DeltaX(vx1, DT_COARSE)),
   y |-> AddY(s.y, DeltaX(vy1, DT_COARSE)),
   vx |-> vx1, vy |-> vy1]
\* dragX, dragY and vx -= dragX * dt; vy -= (GRAVITY + dragY) * dt
SimDrag(s, drag, v) ==
  SimAdvance(s,
             Sub(s.vx, DeltaV(DragComponent(drag, s.vx, v), DT_COARSE)),
             Sub(s.vy, DeltaV(Add(GRAVITY, DragComponent(drag, s.vy, v)), DT_COARSE)))
\* bc and drag for the speed v
SimAt(s, ammo, rho, c, dragModel, v) ==
  SimDrag(s, calculateDrag(v, getBCForVelocity(ammo, v, dragModel), rho, c, dragModel), v)
\* one pass of the loop body: v = Math.sqrt(vx * vx + vy * vy) and the rest
SimBody(s, ammo, rho, c, dragModel) ==
  SimAt(s, ammo, rho, c, dragModel, Norm3(s.vx, s.vy, 0))

\* a faulty variant of the position update: z = vz * dt instead of
\* z += vz * dt
MainAdvanceOverwritingZ(s, vx1, vy1, vz1, dt) ==
  [x |-> Add(s.x, DeltaX(vx1, dt)),
   y |-> Add(s.y, DeltaX(vy1, dt)),
   z |-> DeltaX(vz1, dt),
   vx |-> vx1, vy |-> vy1, vz |-> vz1,
   t |-> s.t + dt]
\* The loop body of calculateTrajectory, innermost statement first:
\* the position and time updates for the updated velocity
MainAdvance(s, vx1, vy1, vz1, dt) ==
  [x |-> Add(s.x, DeltaX(vx1, dt)),
   y |-> Add(s.y, DeltaX(vy1, dt)),
   z |-> Add(s.z, DeltaX(vz1, dt)),
   vx |-> vx1, vy |-> vy1, vz |-> vz1,
   t |-> s.t + dt]
\* the drag components along the relative velocity and the velocity updates
MainDrag(s, headWind, crossWind, drag, vRel, dt) ==
  MainAdvance(s,
              Sub(s.vx, DeltaV(DragComponent(drag, s.vx - headWind, vRel), dt)),
              Sub(s.vy, DeltaV(Add(GRAVITY, DragComponent(drag, s.vy, vRel)), dt)),
              Sub(s.vz, DeltaV(DragComponent(drag, s.vz - crossWind, vRel), dt)),
              dt)
\* a faulty variant: the bounds 0.9 and 1.1 belong to the fine range
StepSizeInclusive(vRel, c) ==
  IF vRel >= 9000 * c /\ vRel <= 11000 * c THEN DT_FINE ELSE DT_COARSE
\* dt = (mach > 0.9 && mach < 1.1) ? 0.0005 : 0.001, mach = vRel / speedOfSound
StepSize(vRel, c) ==
  IF vRel > 9000 * c /\ vRel < 11000 * c THEN DT_FINE ELSE DT_COARSE
\* bc, drag and dt for the relative speed vRel
MainAt(s, ammo, rho, c, dragModel, headWind, crossWind, vRel) ==
  MainDrag(s, headWind, crossWind,
           calculateDrag(vRel, getBCForVelocity(ammo, vRel, dragModel), rho, c, dragModel),
           vRel, StepSize(vRel, c))
\* one pass of the loop body: the speed relative to the air and the rest
MainBody(s, ammo, rho, c, dragModel, headWind, crossWind) ==
  MainAt(s, ammo, rho, c, dragModel, headWind, crossWind,
         Norm3(s.vx - headWind, s.vy, s.vz - crossWind))

\* speed of the bullet at the end of the main loop
FinalVelocity(s) ==
  IF s.vx = NaN \/ s.vy = NaN \/ s.vz = NaN THEN NaN ELSE Norm3(s.vx, s.vy, s.vz)

\* v * v in 0.01 m^2/s^2 for v in mm/s
Square(vmm) == MulDivU(vmm, vmm, 10^4)
\* 0.5 * bulletMass * velocity^2 in 0.01 J
Energy(bulletWeight, velocity) ==
  IF velocity = NaN THEN NaN
  ELSE MulDiv(MulDiv(Square(RDiv(velocity, 10^3)), bulletWeight, 10^3),
              GRAINS_TO_KG \div 2, 10^4)

\* the BallisticResult: drop and drift in 0.1 cm, time in ms, velocity in
\* m/s, energy in J, machAtTarget in 0.01
ResultOf(s, bulletWeight, c, velocity) ==
  [drop |-> JsRound(Sub(0, s.y), 10),
   drift |-> JsRound(s.z, 10),
   time |-> JsRound(s.t, 10^3),
   velocity |-> JsRound(velocity, VelScale),
   energy |-> JsRound(Energy(bulletWeight, velocity), 10^2),
   machAtTarget |-> JsRound(velocity, c * 10^2)]
MakeResult(s, bulletWeight, c) == ResultOf(s, bulletWeight, c, FinalVelocity(s))

NoResult == [drop |-> Undefined, drift |-> Undefined, time |-> Undefined,
             velocity |-> Undefined, energy |-> Undefined,
             machAtTarget |-> Undefined]
NoSim == [x |-> 0, y |-> 0, vx |-> 0, vy |-> 0]
NoMain == [x |-> 0, y |-> 0, z |-> 0, vx |-> 0, vy |-> 0, vz |-> 0, t |-> 0]
\* ------------------------------------------------------------------------
\* Inputs: the profiles of the test suite and of the ammunition catalogue
\* ------------------------------------------------------------------------
Hornady178 == [bulletWeight |-> 178, ballisticCoefficient |-> 552,
               bcG7 |-> 278, bcBands |-> NoBands, dragModel |-> "undefined",
               muzzleVelocity |-> 792000]
TestLoad165 == [bulletWeight |-> 165, ballisticCoefficient |-> 450,
                bcG7 |-> Undefined, bcBands |-> NoBands,
                dragModel |-> "undefined", muzzleVelocity |-> 820000]
Oryx285 == [bulletWeight |-> 285, ballisticCoefficient |-> 405,
            bcG7 |-> Undefined, bcBands |-> NoBands, dragModel |-> "g1",
            muzzleVelocity |-> 730000]

Metres(d) == d * PosScale

eldxG7Profile == [ammunition |-> Hornady178, zeroDistance |-> Metres(100),
                  sightHeight |-> 450, zeroType |-> "gee", dragModel |-> "g7"]
eldxStandardZeroProfile == [eldxG7Profile EXCEPT !.zeroType = "standard"]
basicG1Profile == [ammunition |-> TestLoad165, zeroDistance |-> Metres(100),
                   sightHeight |-> 450, zeroType |-> "standard", dragModel |-> "g1"]
\* basicG1Profile with another muzzle velocity (mm/s)
WithMuzzleVelocity(v0) == [basicG1Profile EXCEPT !.ammunition.muzzleVelocity = v0]
zeroVelProfile == WithMuzzleVelocity(0)
\* the 9.3x62 285gr Oryx of the catalogue zeroed at 200 m
oryxProfile == [ammunition |-> Oryx285, zeroDistance |-> Metres(200),
                sightHeight |-> 450, zeroType |-> "standard", dragModel |-> "g1"]

\* the shared constant: temperature in 0.01 C, pressure in 0.01 hPa,
\* humidity in percent, altitude in m
STANDARD_ATMOSPHERE == [temperature |-> 1500, pressure |-> 101325,
                        humidity |-> 50, altitude |-> 0]

\* { ...a, ...b }: the properties of a, then those of b over them
Spread(a, b) ==
  [f \in DOMAIN a \cup DOMAIN b |-> IF f \in DOMAIN b THEN b[f] ELSE a[f]]
\* an object without properties; spreading an omitted argument adds none
NoOverrides == [f \in {} |-> 0]
\* a parameter with a default value: the default replaces undefined
Default(arg, value) == IF arg = Undefined THEN value ELSE arg

\* a faulty variant: the overrides are spread first and the constant over
\* them
createStandardEnvironmentDefaultsLast(windSpeed, windAngle, overrides) ==
  Spread(Spread(overrides, STANDARD_ATMOSPHERE),
         [windSpeed |-> Default(windSpeed, 0),
          windAngle |-> Default(windAngle, 90)])

\* { ...STANDARD_ATMOSPHERE, ...overrides, windSpeed, windAngle } with the
\* defaults windSpeed = 0 and windAngle = 90 (speed in mm/s, angle in
\* degrees)
createStandardEnvironment(windSpeed, windAngle, overrides) ==
  Spread(Spread(STANDARD_ATMOSPHERE, overrides),
         [windSpeed |-> Default(windSpeed, 0),
          windAngle |-> Default(windAngle, 90)])

\* createStandardEnvironment(0, 90) and createStandardEnvironment(speed, angle)
noWind == createStandardEnvironment(0, 90, NoOverrides)
Wind(speed, angle) == createStandardEnvironment(speed, angle, NoOverrides)

\* ------------------------------------------------------------------------
\* Unit conversions.  cm is in 0.001 cm, distance in m, the per-cm factors
\* are in 10^-9 and the angles returned in 10^-6 MOA or MIL; every
\* operation rounds to the nearest unit, as every operation on doubles
\* rounds to the nearest double
\* ------------------------------------------------------------------------
\* const moaPerCmAt100m = 1 / 2.908
MoaPerCmAt100m == MulDiv(10^9, 10^3, 2908)
\* const milPerCmAt100m = 0.1
MilPerCmAt100m == 10^8
\* value / distanceFactor with distanceFactor = distance / 100
OverDistanceFactor(value, distance) == MulDiv(value, 100, distance)

\* a faulty variant: the angle grows with the distance
cmToMOATimesDistance(cm, distance) ==
  MulDiv(MulDiv(cm, MoaPerCmAt100m, 10^6), distance, 100)

\* cm * moaPerCmAt100m / distanceFactor
cmToMOA(cm, distance) ==
  OverDistanceFactor(MulDiv(cm, MoaPerCmAt100m, 10^6), distance)
\* cm * milPerCmAt100m / distanceFactor
cmToMIL(cm, distance) ==
  OverDistanceFactor(MulDiv(cm, MilPerCmAt100m, 10^6), distance)

\* ------------------------------------------------------------------------
\* The program state.  One call of calculateTrajectory runs from "zero" (the
\* head of the bisection loop of calculateZeroAngle) through "sim" (the loop
\* of simulateTrajectoryForZero) and "main" (the integration loop of
\* calculateTrajectory) to "done" (the result has been returned).  A caller
\* such as generateRangeCardText calls once per distance of its plan and
\* collects the rows [distance, result] in rangeData.
\* ------------------------------------------------------------------------
VARIABLES profile, environment, plan, targetDistance, pc,
          airDensity, speedOfSound, low, high, i, sim, zeroAngle, st,
          result, prev, rangeData, steps, mainSteps, fcall, fret,
          isLoading, profiles, activeProfile, onboardingComplete, settings,
          storage, load, adds

vars == <<profile, environment, plan, targetDistance, pc,
          airDensity, speedOfSound, low, high, i, sim, zeroAngle, st,
          result, prev, rangeData, steps, mainSteps, fcall, fret,
          isLoading, profiles, activeProfile, onboardingComplete, settings,
          storage, load, adds>>

\* the state of AppProvider (the React state of AppContext.tsx), the items
\* of AsyncStorage, and the calls of loadInitialData and addProfile in flight
appVars == <<isLoading, profiles, activeProfile, onboardingComplete, settings,
             storage, load, adds>>

trajVars == <<profile, environment, plan, targetDistance, pc,
              airDensity, speedOfSound, low, high, i, sim, zeroAngle, st,
              result, prev, rangeData, steps, mainSteps>>

NoCall == [fn |-> "none"]

GEE_OFFSET == 400
\* a faulty variant: the GEE offset is left out
TargetHeightWithoutGee(p) == p.sightHeight

\* sightHeight + geeOffset of calculateZeroAngle
TargetHeight(p) == p.sightHeight + (IF p.zeroType = "gee" THEN GEE_OFFSET ELSE 0)
HeadWind(env) == MulDiv(env.windSpeed, CosDeg(env.windAngle), 10^3)
\* a faulty variant: the crosswind component with the opposite sign
CrossWindMirrored(env) == -MulDiv(env.windSpeed, SinDeg(env.windAngle), 10^3)
CrossWind(env) == MulDiv(env.windSpeed, SinDeg(env.windAngle), 10^3)

\* AppProvider before its effect has run: the initial values of useState,
\* the items of AsyncStorage as an earlier session left them, and no call
\* of loadInitialData or addProfile yet.  A rifle profile of the application
\* is modelled by its id, a positive number; null is NoProfile.
NoProfile == 0
DEFAULT_SETTINGS == [units |-> "cm", language |-> "de"]
NoLoad ==
  [pc |-> "idle", timer |-> "off", loadData |-> "none", error |-> "none",
   pending |-> {},
   loadedProfiles |-> << >>, loadedSettings |-> DEFAULT_SETTINGS,
   loadedOnboardingComplete |-> FALSE, activeId |-> NoProfile]
AppInit(stored) ==
  /\ isLoading = TRUE
  /\ profiles = << >>
  /\ activeProfile = NoProfile
  /\ onboardingComplete = FALSE
  /\ settings = DEFAULT_SETTINGS
  /\ storage = stored
  /\ load = NoLoad
  /\ adds = << >>
EmptyStorage ==
  [profiles |-> << >>, activeProfileId |-> NoProfile,
   onboardingComplete |-> FALSE, settings |-> DEFAULT_SETTINGS]

\* the state before the first call, for one profile, one environment and
\* the target distances of the calls to come
TrajInit(p, env, distances) ==
  /\ profile = p
  /\ environment = env
  /\ plan = distances
  /\ targetDistance = 0
  /\ pc = "idle"
  /\ airDensity = 0
  /\ speedOfSound = 0
  /\ low = 0
  /\ high = 0
  /\ i = 0
  /\ sim = NoSim
  /\ zeroAngle = 0
  /\ st = NoMain
  /\ result = NoResult
  /\ prev = [targetDistance |-> 0, result |-> NoResult]
  /\ rangeData = << >>
  /\ steps = 0
  /\ mainSteps = 0

\* no pure function is being evaluated on its own
InitWith(p, env, distances) ==
  /\ TrajInit(p, env, distances)
  /\ AppInit(EmptyStorage)
  /\ fcall = NoCall
  /\ fret = Undefined

\* a faulty variant of the entry: the wind angle is converted to radians in
\* the environment object itself
CallConvertingInPlace ==
  /\ pc \in {"idle", "done"}
  /\ plan # << >>
  /\ targetDistance' = Head(plan)
  /\ plan' = Tail(plan)
  /\ prev' = [targetDistance |-> targetDistance, result |-> result]
  /\ environment' = [environment EXCEPT !.windAngle = (@ * 314) \div 18000]
  /\ airDensity' = calculateAirDensity(environment)
  /\ speedOfSound' = getSpeedOfSound(environment.temperature)
  /\ low' = 0
  /\ high' = AngleHigh
  /\ i' = 0
  /\ sim' = NoSim
  /\ zeroAngle' = 0
  /\ st' = NoMain
  /\ result' = NoResult
  /\ steps' = 0
  /\ mainSteps' = 0
  /\ pc' = "zero"
  /\ UNCHANGED <<appVars,
                 profile, rangeData, fcall, fret>>

\* a faulty variant of the entry: the counter of the bisection loop lives at
\* module level and is set to 0 only once
CallKeepingCounter ==
  /\ pc \in {"idle", "done"}
  /\ plan # << >>
  /\ targetDistance' = Head(plan)
  /\ plan' = Tail(plan)
  /\ prev' = [targetDistance |-> targetDistance, result |-> result]
  /\ airDensity' = calculateAirDensity(environment)
  /\ speedOfSound' = getSpeedOfSound(environment.temperature)
  /\ low' = 0
  /\ high' = AngleHigh
  /\ i' = (IF pc = "idle" THEN 0 ELSE i)
  /\ sim' = NoSim
  /\ zeroAngle' = 0
  /\ st' = NoMain
  /\ result' = NoResult
  /\ steps' = 0
  /\ mainSteps' = 0
  /\ pc' = "zero"
  /\ UNCHANGED <<appVars,
                 profile, environment, rangeData, fcall, fret>>

\* calculateTrajectory(profile, targetDistance, environment) is entered: the
\* atmosphere is evaluated and calculateZeroAngle opens its bracket
Call ==
  /\ pc \in {"idle", "done"}
  /\ plan # << >>
  /\ targetDistance' = Head(plan)
  /\ plan' = Tail(plan)
  /\ prev' = [targetDistance |-> targetDistance, result |-> result]
  /\ airDensity' = calculateAirDensity(environment)
  /\ speedOfSound' = getSpeedOfSound(environment.temperature)
  /\ low' = 0
  /\ high' = AngleHigh
  /\ i' = 0
  /\ sim' = NoSim
  /\ zeroAngle' = 0
  /\ st' = NoMain
  /\ result' = NoResult
  /\ steps' = 0
  /\ mainSteps' = 0
  /\ pc' = "zero"
  /\ UNCHANGED <<appVars,
                 profile, environment, rangeData, fcall, fret>>

\* an iteration of the bisection starts: simulateTrajectoryForZero is entered
\* with angle mid = (low + high) / 2
Bisect ==
  /\ pc = "zero"
  /\ i < ZERO_ITERATIONS
  /\ sim' = [x |-> 0, y |-> 0,
             vx |-> V0Cos(profile.ammunition.muzzleVelocity, low + high),
             vy |-> V0Sin(profile.ammunition.muzzleVelocity, low + high)]
  /\ pc' = "sim"
  /\ UNCHANGED <<appVars,
                 profile, environment, plan, targetDistance, airDensity,
                 speedOfSound, low, high, i, zeroAngle, st, result, prev, rangeData,
                 steps, mainSteps, fcall, fret>>

\* the step counters stop counting at StepsCap
StepsCap == 2 * 10^4
Count(n) == IF n < StepsCap THEN n + 1 ELSE n

\* a faulty variant of the solver's step: the drag is computed for the
\* speed relative to the wind
SimStepInWind ==
  /\ pc = "sim"
  /\ Lt(sim.x, profile.zeroDistance)
  /\ sim' = SimAt(sim, profile.ammunition, airDensity, speedOfSound,
                  EffectiveDragModel(profile),
                  Norm3(sim.vx - HeadWind(environment), sim.vy,
                        CrossWind(environment)))
  /\ steps' = Count(steps)
  /\ UNCHANGED <<appVars,
                 profile, environment, plan, targetDistance, pc, airDensity,
                 speedOfSound, low, high, i, zeroAngle, st, result, prev, rangeData,
                 mainSteps, fcall, fret>>

\* one Euler step of simulateTrajectoryForZero
SimStep ==
  /\ pc = "sim"
  /\ Lt(sim.x, profile.zeroDistance)
  /\ sim' = SimBody(sim, profile.ammunition, airDensity, speedOfSound,
                    EffectiveDragModel(profile))
  /\ steps' = Count(steps)
  /\ UNCHANGED <<appVars,
                 profile, environment, plan, targetDistance, pc, airDensity,
                 speedOfSound, low, high, i, zeroAngle, st, result, prev, rangeData,
                 mainSteps, fcall, fret>>

\* a faulty variant of the halving: the branches are exchanged
SimReturnExchanged ==
  /\ pc = "sim"
  /\ ~Lt(sim.x, profile.zeroDistance)
  /\ IF Lt(sim.y, TargetHeight(profile))
     THEN high' = (low + high) \div 2 /\ low' = low
     ELSE low' = (low + high) \div 2 /\ high' = high
  /\ i' = i + 1
  /\ pc' = "zero"
  /\ UNCHANGED <<appVars,
                 profile, environment, plan, targetDistance, airDensity,
                 speedOfSound, sim, zeroAngle, st, result, prev, rangeData, steps,
                 mainSteps, fcall, fret>>

\* simulateTrajectoryForZero returns y and the bracket is halved
SimReturn ==
  /\ pc = "sim"
  /\ ~Lt(sim.x, profile.zeroDistance)
  /\ IF Lt(sim.y, TargetHeight(profile))
     THEN low' = (low + high) \div 2 /\ high' = high
     ELSE high' = (low + high) \div 2 /\ low' = low
  /\ i' = i + 1
  /\ pc' = "zero"
  /\ UNCHANGED <<appVars,
                 profile, environment, plan, targetDistance, airDensity,
                 speedOfSound, sim, zeroAngle, st, result, prev, rangeData, steps,
                 mainSteps, fcall, fret>>

\* calculateZeroAngle returns (low + high) / 2 and the bullet is placed at
\* the muzzle
ZeroReturn ==
  /\ pc = "zero"
  /\ i = ZERO_ITERATIONS
  /\ zeroAngle' = low + high
  /\ st' = [x |-> 0, y |-> -profile.sightHeight, z |-> 0,
            vx |-> V0Cos(profile.ammunition.muzzleVelocity, low + high),
            vy |-> V0Sin(profile.ammunition.muzzleVelocity, low + high),
            vz |-> 0, t |-> 0]
  /\ pc' = "main"
  /\ UNCHANGED <<appVars,
                 profile, environment, plan, targetDistance, airDensity,
                 speedOfSound, low, high, i, sim, result, prev, rangeData, steps,
                 mainSteps, fcall, fret>>

\* a faulty variant: the loop has no time cap
MainGuardWithoutCap(s, d) == Lt(s.x, d)

\* the guard of the integration loop
MainGuard(s, d) == Lt(s.x, d) /\ s.t < TIME_CAP

\* one Euler step of the integration loop of calculateTrajectory
MainStep ==
  /\ pc = "main"
  /\ MainGuard(st, targetDistance)
  /\ st' = MainBody(st, profile.ammunition, airDensity, speedOfSound,
                    EffectiveDragModel(profile), HeadWind(environment),
                    CrossWind(environment))
  /\ steps' = Count(steps)
  /\ mainSteps' = Count(mainSteps)
  /\ UNCHANGED <<appVars,
                 profile, environment, plan, targetDistance, pc, airDensity,
                 speedOfSound, low, high, i, sim, zeroAngle, result, prev, rangeData,
                 fcall, fret>>

\* a faulty variant of the return: the time reported is interpolated to the
\* target range
ReportInterpolated ==
  /\ pc = "main"
  /\ ~MainGuard(st, targetDistance)
  /\ result' = [MakeResult(st, profile.ammunition.bulletWeight, speedOfSound)
                  EXCEPT !.time = IF Ge(st.x, targetDistance) /\ st.vx > 10^6
                                  THEN JsRound(st.t - MulDiv(st.x - targetDistance,
                                                             10^5, st.vx \div 10^3),
                                               10^3)
                                  ELSE @]
  /\ pc' = "done"
  /\ rangeData' = Append(rangeData, [distance |-> targetDistance,
                                      result |-> result'])
  /\ UNCHANGED <<appVars,
                 profile, environment, plan, targetDistance, airDensity,
                 speedOfSound, low, high, i, sim, zeroAngle, st, prev, steps,
                 mainSteps, fcall, fret>>

\* the loop is left and the rounded result is returned
Report ==
  /\ pc = "main"
  /\ ~MainGuard(st, targetDistance)
  /\ result' = MakeResult(st, profile.ammunition.bulletWeight, speedOfSound)
  /\ pc' = "done"
  /\ rangeData' = Append(rangeData, [distance |-> targetDistance,
                                      result |-> result'])
  /\ UNCHANGED <<appVars,
                 profile, environment, plan, targetDistance, airDensity,
                 speedOfSound, low, high, i, sim, zeroAngle, st, prev, steps,
                 mainSteps, fcall, fret>>

Next == Call \/ Bisect \/ SimStep \/ SimReturn \/ ZeroReturn \/ MainStep \/ Report

\* ------------------------------------------------------------------------
\* The helper functions evaluated on their own: fcall holds the function
\* and its arguments, fret its return value once it has returned
\* ------------------------------------------------------------------------
PureInit(c) ==
  /\ TrajInit(basicG1Profile, noWind, << >>)
  /\ AppInit(EmptyStorage)
  /\ fcall = c
  /\ fret = Undefined

EvalBC ==
  /\ fcall.fn = "getBCForVelocity"
  /\ fret = Undefined
  /\ fret' = getBCForVelocity(fcall.ammo, fcall.velocity, fcall.model)
  /\ UNCHANGED <<appVars, trajVars, fcall>>

EvalDrag ==
  /\ fcall.fn = "interpolateDragTable"
  /\ fret = Undefined
  /\ fret' = interpolateDragTable(fcall.mach, fcall.table)
  /\ UNCHANGED <<appVars, trajVars, fcall>>

\* calculateDrag is called with the air density and the speed of sound of
\* an environment, as the integrators call it
EvalDragInAir ==
  /\ fcall.fn = "calculateDrag"
  /\ pc = "idle"
  /\ fret' = [airDensity |-> calculateAirDensity(fcall.env),
              drag |-> calculateDrag(fcall.velocity, fcall.bc,
                                     calculateAirDensity(fcall.env),
                                     getSpeedOfSound(fcall.env.temperature),
                                     fcall.model)]
  /\ pc' = "returned"
  /\ UNCHANGED <<appVars,
                 profile, environment, plan, targetDistance, airDensity,
                 speedOfSound, low, high, i, sim, zeroAngle, st, result, prev,
                 rangeData, steps, mainSteps, fcall>>

\* cmToMOA or cmToMIL is called for a value and a distance, for k times the
\* value, and for k times the distance
Convert(fn, cm, distance) ==
  IF fn = "cmToMOA" THEN cmToMOA(cm, distance) ELSE cmToMIL(cm, distance)
EvalConvert ==
  /\ fcall.fn \in {"cmToMOA", "cmToMIL"}
  /\ pc = "idle"
  /\ fret' = [plain |-> Convert(fcall.fn, fcall.cm, fcall.distance),
              ofMultiple |-> Convert(fcall.fn, fcall.k * fcall.cm, fcall.distance),
              atMultiple |-> Convert(fcall.fn, fcall.cm, fcall.k * fcall.distance)]
  /\ pc' = "returned"
  /\ UNCHANGED <<appVars,
                 profile, environment, plan, targetDistance, airDensity,
                 speedOfSound, low, high, i, sim, zeroAngle, st, result, prev,
                 rangeData, steps, mainSteps, fcall>>

\* createStandardEnvironment returns a new object; pc tells that it has
\* returned
EvalEnv ==
  /\ fcall.fn = "createStandardEnvironment"
  /\ pc = "idle"
  /\ fret' = createStandardEnvironment(fcall.windSpeed, fcall.windAngle,
                                        fcall.overrides)
  /\ pc' = "returned"
  /\ UNCHANGED <<appVars,
                 profile, environment, plan, targetDistance, airDensity,
                 speedOfSound, low, high, i, sim, zeroAngle, st, result, prev,
                 rangeData, steps, mainSteps, fcall>>

\* ------------------------------------------------------------------------
\* Zero muzzle velocity, in still air and in a 5 m/s crosswind, at 100 m
\* ------------------------------------------------------------------------
Init ==
  \E env \in {noWind, Wind(5000, 90)} :
     InitWith(zeroVelProfile, env, <<Metres(100)>>)

Spec == Init /\ [][Next]_vars

ResultFinite(r) ==
  /\ IsFinite(r.drop)
  /\ IsFinite(r.drift)
  /\ IsFinite(r.time)
  /\ IsFinite(r.velocity)
  /\ IsFinite(r.energy)
  /\ IsFinite(r.machAtTarget)

\* C1: every field of the result returned by calculateTrajectory (drop,
\* drift, time, velocity, energy, machAtTarget) is a finite number, a
\* profile with muzzle velocity 0 included.
C1_ResultIsFinite == pc = "done" => ResultFinite(result)

\* C2: with muzzle velocity 0 the main loop never advances x and runs until
\* the 5 s cap fires; the result has time 5.000 s, velocity and energy about
\* 0 and a large positive drop (more than 100 m).
C2_ZeroVelocityRunsToCap ==
  (pc = "done" /\ profile.ammunition.muzzleVelocity = 0) =>
     /\ st.x = 0
     /\ Ge(st.t, TIME_CAP)
     /\ result.time = 5000
     /\ Ge(1, result.velocity)
     /\ Ge(1, result.energy)
     /\ Ge(result.drop, 100000)

\* C3: the main loop is left only when the range is reached or the cap has
\* fired: in the state that is reported, x >= targetDistance or t >= 5 s.
C3_ExitByRangeOrCap ==
  pc = "done" => (Ge(st.x, targetDistance) \/ Ge(st.t, TIME_CAP))

\* ------------------------------------------------------------------------
\* A bullet leaving the muzzle at 1 m/s, and a profile without bcG7,
\* bcBands and dragModel
\* ------------------------------------------------------------------------
InitSlow ==
  \E p \in {WithMuzzleVelocity(1000),
            [zeroVelProfile EXCEPT !.dragModel = "undefined"]} :
     InitWith(p, noWind, <<Metres(100)>>)

SpecSlow == InitSlow /\ [][Next]_vars

\* the loop of simulateTrajectoryForZero is in a state it can never leave:
\* its condition holds and its body maps the state to itself
SolverStalled ==
  /\ pc = "sim"
  /\ Lt(sim.x, profile.zeroDistance)
  /\ SimBody(sim, profile.ammunition, airDensity, speedOfSound,
             EffectiveDragModel(profile)) = sim

\* C4: calculateTrajectory is total: every call returns a result, so no call
\* reaches a state in which one of its loops runs forever.
C4_EveryCallReturns == ~SolverStalled

\* ------------------------------------------------------------------------
\* Calls at the zero distance: the GEE and the standard profile of the test
\* suite, the GEE profile in a 15 m/s headwind, and a load of 150 m/s
\* ------------------------------------------------------------------------
InitZero ==
  \E in \in {<<eldxG7Profile, noWind>>,
             <<eldxG7Profile, Wind(15000, 0)>>,
             <<basicG1Profile, noWind>>,
             <<WithMuzzleVelocity(150000), noWind>>} :
     InitWith(in[1], in[2], <<in[1].zeroDistance>>)

SpecZero == InitZero /\ [][Next]_vars

\* the zero condition on a drop in 0.1 cm
ZeroCondition(zeroType, drop) ==
  IF zeroType = "gee"
  THEN Lt(drop, 0) /\ Ge(-drop, 10) /\ Ge(70, -drop)
  ELSE Lt(drop, 20) /\ Lt(-20, drop)

AtZeroDistance == pc = "done" /\ targetDistance = profile.zeroDistance

\* the bisection has moved both ends of its bracket: some simulated impact
\* was below the target height and some was not
Bracketed == 0 < low /\ high < AngleHigh

InitPairs ==
  \E in \in {<<eldxG7Profile, noWind, <<Metres(100), Metres(101)>> >>,
             <<eldxG7Profile, noWind, <<Metres(100), Metres(110)>> >>,
             <<basicG1Profile, Wind(5000, 90), <<Metres(300), Metres(500)>> >>,
             <<zeroVelProfile, Wind(5000, 90), <<Metres(100), Metres(200)>> >>} :
     InitWith(in[1], in[2], in[3])

SpecPairs == InitPairs /\ [][Next]_vars

\* the second call of a pair has returned, its distance the larger one
SecondDone ==
  /\ pc = "done"
  /\ prev.result # NoResult
  /\ prev.targetDistance < targetDistance

RifleLoad == profile.ammunition.muzzleVelocity >= 700000
\* the slider's step between two target distances
DISTANCE_STEP == 10

InitSteps ==
  \E in \in {<<oryxProfile, noWind, Metres(500)>>,
             <<zeroVelProfile, Wind(5000, 90), Metres(100)>>} :
     InitWith(in[1], in[2], <<in[3]>>)

SpecSteps == InitSteps /\ [][Next]_vars

\* the 5 s cap divided by the 0.5 ms minimum step
MaxSteps == TIME_CAP \div DT_FINE

\* C7 (as stated): one call executes at most 10,000 Euler steps in total,
\* the steps of the zero-angle solver's simulations included.
C7_TotalStepsBounded == steps <= MaxSteps

\* C7 (amended): the main loop of one call executes at most 10,001 Euler
\* steps: never more than the elapsed time divided by the minimum step, the
\* elapsed time being below the cap before the last step.  (The sum of
\* 10,000 doubles 0.0005 is just below 5, which allows the step 10,001.)
C7_MainStepsBounded ==
  /\ mainSteps <= MaxSteps + 1
  /\ pc \in {"main", "done"} =>
        /\ mainSteps * DT_FINE <= st.t
        /\ st.t < TIME_CAP + DT_COARSE

C7_Witness == pc = "done" /\ st.t >= TIME_CAP /\ mainSteps = 5000

\* ------------------------------------------------------------------------
\* getBCForVelocity on its own
\* ------------------------------------------------------------------------
\* the bands of the .308 Win 178gr ELD-X of the catalogue, the same bands
\* in ascending order, a single band, and an empty list
EldxBands == <<[velocityThreshold |-> 765000000, bc |-> 552],
               [velocityThreshold |-> 681000000, bc |-> 543],
               [velocityThreshold |-> 0, bc |-> 538]>>
AscendingBands == <<EldxBands[3], EldxBands[2], EldxBands[1]>>
BandLists == {Bands(EldxBands), Bands(AscendingBands),
              Bands(<<EldxBands[2]>>), Bands(<< >>), NoBands}

\* velocities from 0 in steps of 50 m/s, and the thresholds with their
\* neighbours
MaxVelocityIndex == 18
Velocities ==
  {k * 50000000 : k \in 0..MaxVelocityIndex}
     \cup {EldxBands[b].velocityThreshold + d : b \in 1..2, d \in {-1, 0, 1}}
     \cup {NaN}

BCCalls ==
  {[fn |-> "getBCForVelocity",
    ammo |-> [Hornady178 EXCEPT !.bcBands = bands, !.bcG7 = g7],
    velocity |-> v, model |-> m] :
     bands \in BandLists, g7 \in {Undefined, 278}, v \in Velocities,
     m \in {"g1", "g7"}}

InitBC == \E c \in BCCalls : PureInit(c)
SpecBC == InitBC /\ [][EvalBC]_vars

BCReturned == fcall.fn = "getBCForVelocity" /\ fret # Undefined
HasBands(ammo) == ammo.bcBands.defined /\ Len(ammo.bcBands.bands) > 0
\* the positions of the bands whose threshold is at most v
Qualifying(bands, v) == {k \in 1..Len(bands) : Ge(v, bands[k].velocityThreshold)}
SortedDescending(bands) ==
  \A j, k \in 1..Len(bands) :
     j < k => bands[j].velocityThreshold >= bands[k].velocityThreshold

\* C8: with a non-empty bcBands list getBCForVelocity returns the bc of the
\* first band in list order whose threshold is <= v, and the bc of the last
\* band when there is none, whatever the drag model and bcG7 are; for a list
\* sorted descending that band has the greatest threshold not exceeding v.
C8_FirstQualifyingBand ==
  (BCReturned /\ HasBands(fcall.ammo)) =>
     LET bands == fcall.ammo.bcBands.bands
         q     == Qualifying(bands, fcall.velocity)
     IN IF q = {} THEN fret = bands[Len(bands)].bc
        ELSE /\ \E k \in q : (\A j \in q : k <= j) /\ fret = bands[k].bc
             /\ SortedDescending(bands) =>
                   \E k \in q :
                      /\ \A j \in q : bands[k].velocityThreshold >= bands[j].velocityThreshold
                      /\ fret = bands[k].bc

C8_Witness ==
  /\ BCReturned
  /\ fcall.ammo.bcBands.bands = AscendingBands
  /\ fcall.velocity = 700000000
  /\ fcall.model = "g7"
  /\ fcall.ammo.bcG7 # Undefined
  /\ fret = 538

\* C9: without bcBands, or with an empty list, getBCForVelocity returns bcG7
\* when the model is G7 and bcG7 is provided and the G1 ballisticCoefficient
\* otherwise; what it returns is always a BC stored in the ammunition record.
C9_SingleValueBC ==
  BCReturned =>
     /\ ~HasBands(fcall.ammo) =>
           fret = IF fcall.model = "g7" /\ fcall.ammo.bcG7 # Undefined
                  THEN fcall.ammo.bcG7
                  ELSE fcall.ammo.ballisticCoefficient
     /\ \/ fret = fcall.ammo.ballisticCoefficient
        \/ fret = fcall.ammo.bcG7 /\ fret # Undefined
        \/ \E k \in 1..Len(fcall.ammo.bcBands.bands) :
              fret = fcall.ammo.bcBands.bands[k].bc

C9_Witness ==
  /\ BCReturned
  /\ fcall.ammo.bcBands = Bands(<< >>)
  /\ fcall.model = "g7"
  /\ fret = 278

\* ------------------------------------------------------------------------
\* interpolateDragTable on its own, for Mach -0.25 to 6.25 in steps of 0.0125
\* ------------------------------------------------------------------------
MaxMachIndex == 520
Machs == {k * 125 - 2500 : k \in 0..MaxMachIndex}

DragCalls ==
  {[fn |-> "interpolateDragTable", mach |-> m, table |-> t] :
     m \in Machs, t \in {G1_DRAG_TABLE, G7_DRAG_TABLE}}

InitDrag == \E c \in DragCalls : PureInit(c)
SpecDrag == InitDrag /\ [][EvalDrag]_vars

DragReturned == fcall.fn = "interpolateDragTable" /\ fret # Undefined
Between(a, lo, hi) == (lo <= a /\ a <= hi) \/ (hi <= a /\ a <= lo)

\* C10: interpolateDragTable never extrapolates: it returns the first Cd for
\* mach <= the first Mach of the table, the last Cd for mach >= the last,
\* otherwise a value between the Cd values of the two adjacent entries that
\* bracket mach, and exactly the tabulated Cd at a table Mach value.
C10_ClampedInterpolation ==
  DragReturned =>
     LET table == fcall.table
         n     == Len(table)
         mach  == fcall.mach
     IN /\ mach <= table[1][1] => fret = table[1][2] * TableCd
        /\ mach >= table[n][1] => fret = table[n][2] * TableCd
        /\ \A k \in 1..(n - 1) :
              (table[k][1] <= mach /\ mach <= table[k + 1][1]) =>
                 Between(fret, table[k][2] * TableCd, table[k + 1][2] * TableCd)
        /\ \A k \in 1..n : mach = table[k][1] => fret = table[k][2] * TableCd

C10_Witness ==
  /\ DragReturned
  /\ fcall.table = G7_DRAG_TABLE
  /\ fcall.mach = 9625
  /\ fret > G7_DRAG_TABLE[25][2] * TableCd
  /\ fret < G7_DRAG_TABLE[26][2] * TableCd
\* ------------------------------------------------------------------------
\* Profiles that do not set dragModel: one whose ammunition prefers G7, one
\* whose ammunition states no preference
\* ------------------------------------------------------------------------
unsetModelProfile ==
  [eldxG7Profile EXCEPT !.dragModel = "undefined", !.ammunition.dragModel = "g7"]
unsetBothProfile == [eldxG7Profile EXCEPT !.dragModel = "undefined"]

InitModel ==
  \E p \in {unsetModelProfile, unsetBothProfile, eldxG7Profile} :
     InitWith(p, noWind, <<Metres(100)>>)

SpecModel == InitModel /\ [][Next]_vars

\* the drag model the profile stands for: its own, else the preference of
\* its ammunition, else G1
PreferredDragModel(p) ==
  IF p.dragModel # "undefined" THEN p.dragModel
  ELSE IF p.ammunition.dragModel # "undefined" THEN p.ammunition.dragModel
  ELSE "g1"

\* C11: for a profile that does not set dragModel, every step of the
\* zero-angle solver and of the main loop is integrated with the drag model
\* the ammunition prefers, and with G1 when it prefers none.
C11_AmmoPreferenceIsDefault ==
  [][/\ (pc = "sim" /\ pc' = "sim") =>
          sim' = SimBody(sim, profile.ammunition, airDensity, speedOfSound,
                         PreferredDragModel(profile))
     /\ (pc = "main" /\ pc' = "main") =>
          st' = MainBody(st, profile.ammunition, airDensity, speedOfSound,
                         PreferredDragModel(profile), HeadWind(environment),
                         CrossWind(environment))]_vars
\* ------------------------------------------------------------------------
\* Wind: the crosswind, still-air, headwind and tailwind calls of the test
\* suite, a quartering wind, and a bullet without muzzle velocity
\* ------------------------------------------------------------------------
InitWind ==
  \E in \in {<<eldxG7Profile, Wind(5000, 90), <<Metres(50), Metres(51), Metres(61)>> >>,
             <<eldxG7Profile, Wind(5000, 90), <<Metres(200), Metres(300)>> >>,
             <<basicG1Profile, Wind(10000, 45), <<Metres(200)>> >>,
             <<zeroVelProfile, Wind(5000, 90), <<Metres(100), Metres(200)>> >>,
             <<eldxG7Profile, Wind(0, 90), <<Metres(300)>> >>,
             <<eldxG7Profile, Wind(10000, 0), <<Metres(300)>> >>,
             <<eldxG7Profile, Wind(10000, 180), <<Metres(300)>> >>,
             <<zeroVelProfile, Wind(0, 90), <<Metres(100)>> >>} :
     InitWith(in[1], in[2], in[3])

SpecWind == InitWind /\ [][Next]_vars

\* the wind blows, and from the right: sin(windAngle) > 0
WindFromRight == environment.windSpeed > 0 /\ SinDeg(environment.windAngle) > 0
\* the main loop has run at least one step
Stepped == pc \in {"main", "done"} /\ mainSteps >= 1
\* the smallest target distance the distance slider offers, in metres
MIN_DISTANCE == 50

NoCrossWind == environment.windSpeed = 0 \/ environment.windAngle \in {0, 180}

\* C13: in still air, and in a wind from 0 or 180 degrees of any speed, the
\* reported |drift| is below 3 cm for every profile; in still air vz and z
\* are exactly 0 after every step.
C13_NoLateralMotion ==
  (pc \in {"main", "done"} /\ NoCrossWind) =>
     /\ pc = "done" => (Lt(result.drift, 30) /\ Lt(-30, result.drift))
     /\ environment.windSpeed = 0 => (st.vz = 0 /\ st.z = 0)
\* the second of two calls in a pure crosswind has returned
SecondInCrossWind ==
  SecondDone /\ environment.windSpeed > 0 /\ environment.windAngle = 90

TEST_WIND == 5000

eldxCatalogueProfile ==
  [eldxG7Profile EXCEPT !.ammunition.bcBands = Bands(EldxBands),
                        !.ammunition.dragModel = "g7"]

InitCalls ==
  \E in \in {<<eldxCatalogueProfile, Wind(5000, 90),
               <<Metres(300), Metres(100), Metres(300)>> >>,
             <<basicG1Profile, noWind,
               <<Metres(100), Metres(300), Metres(100)>> >>} :
     InitWith(in[1], in[2], in[3])

SpecCalls == InitCalls /\ [][Next]_vars

\* C15: no step of calculateTrajectory, of calculateZeroAngle or of
\* simulateTrajectoryForZero changes the profile, its ammunition (bcBands
\* included) or the environment.
C15_InputsUnchanged ==
  [][profile' = profile /\ environment' = environment]_vars

\* three calls have returned and the inputs are those of the first call
C15_Witness ==
  /\ pc = "done"
  /\ Len(rangeData) = 3
  /\ profile = eldxCatalogueProfile
  /\ profile.ammunition.bcBands.bands = EldxBands
  /\ environment = Wind(5000, 90)
  /\ IsFinite(result.drop)
OverrideValues == [temperature |-> 2500, pressure |-> 85000, humidity |-> 80,
                   altitude |-> 1500, windSpeed |-> 7000]
Overrides == {[f \in K |-> OverrideValues[f]] : K \in SUBSET DOMAIN OverrideValues}

EnvCalls ==
  {[fn |-> "createStandardEnvironment", windSpeed |-> w, windAngle |-> a,
    overrides |-> o] :
     w \in {Undefined, 0, 5000}, a \in {Undefined, 45, 90}, o \in Overrides}

InitEnv == \E c \in EnvCalls : PureInit(c)
SpecEnv == InitEnv /\ [][EvalEnv]_vars

EnvReturned == fcall.fn = "createStandardEnvironment" /\ pc = "returned"
\* the ISA defaults: 15 C, 1013.25 hPa, 0.5 relative humidity, 0 m
IsaDefaults == [temperature |-> 1500, pressure |-> 101325, humidity |-> 50,
                altitude |-> 0]

\* C17: createStandardEnvironment returns an object with the six fields of
\* an environment, in which temperature, pressure, humidity and altitude
\* are the override where overrides has the field and the ISA default
\* where it has not, and windSpeed and windAngle are the positional
\* arguments, 0 and 90 when they are omitted.
C17_DefaultsAndOverrides ==
  EnvReturned =>
     /\ DOMAIN fret = DOMAIN IsaDefaults \cup {"windSpeed", "windAngle"}
     /\ \A f \in DOMAIN IsaDefaults :
           fret[f] = IF f \in DOMAIN fcall.overrides THEN fcall.overrides[f]
                     ELSE IsaDefaults[f]
     /\ fret.windSpeed = (IF fcall.windSpeed = Undefined THEN 0 ELSE fcall.windSpeed)
     /\ fret.windAngle = (IF fcall.windAngle = Undefined THEN 90 ELSE fcall.windAngle)

\* createStandardEnvironment(0, 90, { temperature: 25, altitude: 1500 })
C17_Witness ==
  /\ EnvReturned
  /\ DOMAIN fcall.overrides = {"temperature", "altitude"}
  /\ fret.temperature = 2500
  /\ fret.altitude = 1500
  /\ fret.pressure = 101325
  /\ fret.windAngle = 90
\* ------------------------------------------------------------------------
\* cmToMOA and cmToMIL on their own
\* ------------------------------------------------------------------------
\* values in 0.001 cm: 0.1 cm, 2.908 cm, 5.816 cm, 10 cm, drops and drifts
ConvertValues == {100, 2908, 5816, 10000, 12345, 28400, 39200, -392, -4000, 0}
ConvertDistances == {50, 100, 150, 200, 300}
Factors == {2, 3, 5}

ConvertCalls ==
  {[fn |-> f, cm |-> c, distance |-> d, k |-> k] :
     f \in {"cmToMOA", "cmToMIL"}, c \in ConvertValues,
     d \in ConvertDistances, k \in Factors}

InitConvert == \E c \in ConvertCalls : PureInit(c)
SpecConvert == InitConvert /\ [][EvalConvert]_vars

Converted == fcall.fn \in {"cmToMOA", "cmToMIL"} /\ pc = "returned"

C19_SolverSimulationCapped ==
  pc = "sim" => steps * DT_COARSE <= (i + 1) * TIME_CAP
\* ------------------------------------------------------------------------
\* The bisection of calculateZeroAngle
\* ------------------------------------------------------------------------
\* the loop of simulateTrajectoryForZero run to its end: the impact height
\* y, or Undefined when the loop is still running after 4^SimLevels passes
SimLevels == 4
\* while (x < distance) { ... }: one test of the condition and one pass
SimPass(s, ammo, distance, rho, c, dragModel) ==
  IF Lt(s.x, distance) THEN SimBody(s, ammo, rho, c, dragModel) ELSE s
\* 4^level passes, a quarter of them at a time, until the loop is left
RECURSIVE SimLoop(_, _, _, _, _, _, _)
SimLoop(s, ammo, distance, rho, c, dragModel, level) ==
  IF level = 0 THEN SimPass(s, ammo, distance, rho, c, dragModel)
  ELSE LET s1 == SimLoop(s, ammo, distance, rho, c, dragModel, level - 1)
           s2 == SimLoop(s1, ammo, distance, rho, c, dragModel, level - 1)
           s3 == SimLoop(s2, ammo, distance, rho, c, dragModel, level - 1)
       IN IF ~Lt(s1.x, distance) THEN s1
          ELSE IF ~Lt(s2.x, distance) THEN s2
          ELSE IF ~Lt(s3.x, distance) THEN s3
          ELSE SimLoop(s3, ammo, distance, rho, c, dragModel, level - 1)
\* return y
SimResult(s, distance) == IF Lt(s.x, distance) THEN Undefined ELSE s.y

\* the impact height for the launch angle a / 2 (a as in V0Sin)
simulateTrajectoryForZero(ammo, distance, a, rho, c, dragModel) ==
  SimResult(SimLoop([x |-> 0, y |-> 0, vx |-> V0Cos(ammo.muzzleVelocity, a),
                     vy |-> V0Sin(ammo.muzzleVelocity, a)],
                    ammo, distance, rho, c, dragModel, SimLevels),
            distance)

\* the angle theta as V0Sin and V0Cos take it; for 0.02 rad the largest
\* 32-bit integer, which NanoRad maps to 2 * 10^7 as it would 2^31
TwiceAngle(theta) == IF theta = AngleHigh THEN 2 * (AngleHigh - 1) + 1 ELSE 2 * theta

\* y(theta) for the profile and the atmosphere of the call
ImpactAt(theta) ==
  simulateTrajectoryForZero(profile.ammunition, profile.zeroDistance,
                            TwiceAngle(theta), airDensity, speedOfSound,
                            EffectiveDragModel(profile))

\* y(lo) < h_target <= y(hi)
Encloses(lo, hi, h) ==
  /\ ImpactAt(lo) # Undefined
  /\ ImpactAt(hi) # Undefined
  /\ Lt(ImpactAt(lo), h)
  /\ Ge(ImpactAt(hi), h)

\* C20: calculateZeroAngle runs 30 iterations on [0, 0.02] rad, keeps
\* 0 <= low <= high <= 0.02, halves high - low in each iteration and
\* returns the midpoint of the final bracket, whose width is 0.02 / 2^30;
\* when y(0) < h_target <= y(0.02), then y(low) < h_target <= y(high)
\* before and after every iteration, for the final bracket in particular.
C20_Bisection ==
  pc # "idle" =>
     /\ 0 <= low /\ low <= high /\ high <= AngleHigh
     /\ i <= ZERO_ITERATIONS
     /\ (high - low) * 2^i = AngleHigh
     /\ pc \in {"main", "done"} =>
           /\ i = ZERO_ITERATIONS
           /\ high - low = 1
           /\ zeroAngle = low + high
     /\ (pc = "zero" /\ Encloses(0, AngleHigh, TargetHeight(profile))) =>
           Encloses(low, high, TargetHeight(profile))

\* the solver has returned for the GEE profile of the test suite, whose
\* zero angle lies inside the bracket
C20_Witness ==
  /\ pc = "main"
  /\ mainSteps = 0
  /\ profile.zeroType = "gee"
  /\ i = ZERO_ITERATIONS
  /\ 0 < low /\ high < AngleHigh
  /\ zeroAngle = low + high
  /\ Encloses(0, AngleHigh, TargetHeight(profile))
  /\ Encloses(low, high, TargetHeight(profile))
\* ------------------------------------------------------------------------
\* The time step: loads that cross Mach 1.1 and Mach 0.9 on their way, and
\* a bullet at rest in a headwind of exactly Mach 0.9 and of Mach 1.1
\* ------------------------------------------------------------------------
InitMach ==
  \E in \in {<<WithMuzzleVelocity(400000), noWind, Metres(300)>>,
             <<WithMuzzleVelocity(320000), noWind, Metres(300)>>,
             <<zeroVelProfile, Wind(9 * getSpeedOfSound(1500), 0), Metres(100)>>,
             <<zeroVelProfile, Wind(11 * getSpeedOfSound(1500), 0), Metres(100)>>} :
     InitWith(in[1], in[2], <<in[3]>>)

SpecMach == InitMach /\ [][Next]_vars

\* the speed of the bullet relative to the air in the state s
RelativeSpeed(s) ==
  Norm3(s.vx - HeadWind(environment), s.vy, s.vz - CrossWind(environment))
\* 0.9 < m < 1.1 for m = vRel / speedOfSound (vRel in VelScale units,
\* speedOfSound in cm/s)
Transonic(vRel) ==
  /\ ~IsNaN(vRel)
  /\ 9 * speedOfSound * 10^3 < vRel
  /\ vRel < 11 * speedOfSound * 10^3
MainStepped == pc = "main" /\ mainSteps' = mainSteps + 1
SimStepped == pc = "sim" /\ pc' = "sim" /\ steps' = steps + 1

\* C21: a step of the main integrator takes dt = 0.0005 s exactly when the
\* Mach number m of the relative airspeed has 0.9 < m < 1.1, and 0.001 s
\* otherwise; t and the position advance by that dt; a step of the
\* solver's integrator always takes 0.001 s.
C21_AdaptiveStep ==
  [][/\ MainStepped =>
         /\ st'.t - st.t = (IF Transonic(RelativeSpeed(st)) THEN DT_FINE ELSE DT_COARSE)
         /\ st'.x = Add(st.x, DeltaX(st'.vx, st'.t - st.t))
         /\ st'.y = Add(st.y, DeltaX(st'.vy, st'.t - st.t))
     /\ SimStepped =>
         /\ sim'.x = Add(sim.x, DeltaX(sim'.vx, DT_COARSE))
         /\ sim'.y = AddY(sim.y, DeltaX(sim'.vy, DT_COARSE))]_vars

\* a fine step has been taken after a coarse one
C21_Witness ==
  /\ pc = "main"
  /\ st.t > DT_COARSE
  /\ st.t % DT_COARSE = DT_FINE
  /\ Transonic(RelativeSpeed(st))
\* ------------------------------------------------------------------------
\* The zero-angle solver and the wind
\* ------------------------------------------------------------------------
\* the environment with its wind replaced by no wind
WithoutWind(env) == [env EXCEPT !.windSpeed = 0, !.windAngle = 90]

\* C22: the launch angle computed by calculateZeroAngle does not depend on
\* the wind: every step of the solver (its atmosphere, the start of each
\* simulation, each Euler step, each halving and the angle returned) is the
\* step it takes for the same profile in the same environment without
\* wind, so two environments that differ in the wind only give the same
\* sequence of brackets and the same angle.
C22_ZeroAngleIgnoresWind ==
  [][/\ (pc' = "zero" /\ i' = 0) =>
         /\ airDensity' = calculateAirDensity(WithoutWind(environment))
         /\ speedOfSound' = getSpeedOfSound(WithoutWind(environment).temperature)
         /\ low' = 0 /\ high' = AngleHigh
     /\ (pc = "zero" /\ pc' = "sim") =>
         sim' = [x |-> 0, y |-> 0,
                 vx |-> V0Cos(profile.ammunition.muzzleVelocity, low + high),
                 vy |-> V0Sin(profile.ammunition.muzzleVelocity, low + high)]
     /\ SimStepped =>
         sim' = SimBody(sim, profile.ammunition,
                        calculateAirDensity(WithoutWind(environment)),
                        getSpeedOfSound(WithoutWind(environment).temperature),
                        EffectiveDragModel(profile))
     /\ (pc = "sim" /\ pc' = "zero") =>
         /\ ~Lt(sim.x, profile.zeroDistance)
         /\ <<low', high'>> = IF Lt(sim.y, TargetHeight(profile))
                              THEN <<(low + high) \div 2, high>>
                              ELSE <<low, (low + high) \div 2>>
     /\ (pc = "zero" /\ pc' = "main") =>
         /\ zeroAngle' = low + high
         /\ st'.vx = V0Cos(profile.ammunition.muzzleVelocity, low + high)
         /\ st'.vy = V0Sin(profile.ammunition.muzzleVelocity, low + high)]_vars

\* the solver has returned an angle inside its bracket in a 10 m/s wind
C22_Witness ==
  /\ pc = "main"
  /\ mainSteps = 0
  /\ environment.windSpeed = 10000
  /\ i = ZERO_ITERATIONS
  /\ 0 < low /\ high < AngleHigh
  /\ zeroAngle = low + high
\* ------------------------------------------------------------------------
\* The rounding of the result
\* ------------------------------------------------------------------------
\* the GEE profile in a 5 m/s wind from the left, at 58 m, where the drift
\* is negative, and at 49 m, where the bullet is above the line of sight
InitRound ==
  \E distances \in {<<Metres(58)>>, <<Metres(49)>>, <<Metres(300)>>} :
     InitWith(eldxG7Profile, Wind(5000, 270), distances)

SpecRound == InitRound /\ [][Next]_vars

\* a / c rounded to the nearest integer, a half away from zero
RoundHalfAway(a, c) == IF a = NaN THEN NaN ELSE Sgn(a) * ((Abs(a) + c \div 2) \div c)

LeavesByRange == MainStepped /\ ~Lt(st'.x, targetDistance)

\* C24: the values reported are those of the first state whose x has
\* crossed the target range, without interpolation: every step starts
\* from x < targetDistance, a step that leaves the loop by range ends with
\* targetDistance <= x, overshooting by less than the advance vx * dt of
\* that step, and the result is computed from the state the loop ends in.
C24_ReportsFirstCrossing ==
  [][/\ MainStepped => Lt(st.x, targetDistance)
     /\ LeavesByRange =>
         /\ Ge(st'.x, targetDistance)
         /\ st'.x - targetDistance < DeltaX(st'.vx, st'.t - st.t)
     /\ (pc = "main" /\ pc' = "done") =>
         /\ st' = st
         /\ result' = MakeResult(st, profile.ammunition.bulletWeight,
                                 speedOfSound)]_vars
\* ------------------------------------------------------------------------
\* calculateDrag in the atmospheres the entry point admits
\* ------------------------------------------------------------------------
\* temperature -40 .. +80 C, pressure 100 .. 1200 hPa, humidity 0 .. 1
Temperatures == {-4000, 0, 1500, 5000, 7000, 8000}
Pressures == {10000, 50000, 101325, 120000}
Humidities == {0, 50, 100}
\* relative airspeeds 0, 100, 340 and 800 m/s
Airspeeds == {0, 100 * VelScale, 340 * VelScale, 800 * VelScale}

DragInAirCalls ==
  {[fn |-> "calculateDrag",
    env |-> createStandardEnvironment(0, 90, [temperature |-> t, pressure |-> p,
                                              humidity |-> h]),
    velocity |-> v, bc |-> bc, model |-> m] :
     t \in Temperatures, p \in Pressures, h \in Humidities,
     v \in Airspeeds, bc \in {278, 450}, m \in {"g1", "g7"}}

InitDragInAir == \E c \in DragInAirCalls : PureInit(c)
SpecDragInAir == InitDragInAir /\ [][EvalDragInAir]_vars

\* C25: for every relative airspeed, every positive BC and every
\* environment with temperature in [-80, 80] C, pressure in [100, 1200] hPa
\* and humidity in [0, 1], the air density is positive and the drag
\* deceleration returned by calculateDrag is >= 0.
C25_DragNeverNegative ==
  (fcall.fn = "calculateDrag" /\ pc = "returned") =>
     /\ fret.airDensity > 0
     /\ fret.drag >= 0
\* ------------------------------------------------------------------------
\* The main integrator and the solver's integrator
\* ------------------------------------------------------------------------
\* the state of the 2-D integrator that corresponds to the state s of the
\* main integrator: the same x, vx and vy, and y measured from the bore
Planar(s) == [x |-> s.x, y |-> Add(s.y, profile.sightHeight),
              vx |-> s.vx, vy |-> s.vy]
\* a step of the main loop without wind and outside 0.9 < m < 1.1
CoarseStepInStillAir ==
  /\ MainStepped
  /\ environment.windSpeed = 0
  /\ ~Transonic(RelativeSpeed(st))

\* C26: without wind and outside the transonic range the main integrator
\* refines the solver's integrator: it starts in the state the solver's
\* integrator starts in for the same angle, sightHeight lower, and each of
\* its steps is the step of the solver's integrator, with z = vz = 0; so
\* after the same number of steps both have the same x, vx and vy and the
\* y of the main integrator is the y of the solver's minus sightHeight.
C26_MainRefinesSolver ==
  [][/\ (pc = "zero" /\ pc' = "main") =>
         /\ Planar(st') =
               [x |-> 0, y |-> 0,
                vx |-> V0Cos(profile.ammunition.muzzleVelocity, zeroAngle'),
                vy |-> V0Sin(profile.ammunition.muzzleVelocity, zeroAngle')]
         /\ st'.z = 0 /\ st'.vz = 0
     /\ CoarseStepInStillAir =>
         /\ Planar(st') = SimBody(Planar(st), profile.ammunition, airDensity,
                                  speedOfSound, EffectiveDragModel(profile))
         /\ st'.z = 0 /\ st'.vz = 0]_vars
\* ------------------------------------------------------------------------
\* Two calls for two target distances: 100 m and 100.5 m, which one step
\* crosses; 100 m and 300 m in a crosswind; 200 m and 300 m for a load that
\* turns transonic; two distances a bullet at rest in a wind never reaches
\* ------------------------------------------------------------------------
InitPrefix ==
  \E in \in {<<eldxG7Profile, noWind, <<Metres(100), Metres(100) + PosScale \div 2>> >>,
             <<eldxG7Profile, Wind(5000, 90), <<Metres(100), Metres(300)>> >>,
             <<WithMuzzleVelocity(400000), noWind, <<Metres(200), Metres(300)>> >>,
             <<zeroVelProfile, Wind(5000, 90), <<Metres(100), Metres(200)>> >>} :
     InitWith(in[1], in[2], in[3])

SpecPrefix == InitPrefix /\ [][Next]_vars

\* the call running is the second of two and its distance is not the
\* smaller one
SecondRunning ==
  /\ prev.result # NoResult
  /\ prev.targetDistance <= targetDistance
\* the step taken is the one after which the loop of the first call would
\* have been left
LeavesFirstLoop ==
  /\ MainStepped
  /\ MainGuard(st, prev.targetDistance)
  /\ ~MainGuard(st', prev.targetDistance)

\* C27: the run for the target distance d1 is a prefix of the run for
\* d2 > d1 with the same profile and environment: the run for d2 passes
\* through the state in which the run for d1 ended, and the result of the
\* call for d1 is the result computed from that state; so the run for d1
\* has no more steps and no larger time than the run for d2, and two
\* distances crossed by the same step have the same result.
C27_RunIsPrefix ==
  [][/\ (SecondRunning /\ LeavesFirstLoop) =>
         MakeResult(st', profile.ammunition.bulletWeight, speedOfSound) = prev.result
     /\ (SecondRunning /\ MainStepped /\ ~MainGuard(st', targetDistance)) =>
         ~MainGuard(st', prev.targetDistance)
     /\ (SecondRunning /\ pc = "main" /\ pc' = "done") =>
         /\ Ge(result'.time, prev.result.time)
         /\ result'.time = prev.result.time => result' = prev.result]_vars

\* 100 m and 100.5 m are crossed by the same step and have the same result
C27_Witness ==
  /\ pc = "done"
  /\ prev.result # NoResult
  /\ prev.targetDistance = Metres(100)
  /\ targetDistance = Metres(100) + PosScale \div 2
  /\ Lt(st.x - DeltaX(st.vx, DT_COARSE), Metres(100))
  /\ result = prev.result
\* ------------------------------------------------------------------------
\* The lateral velocity in a crosswind from the right, in the standard
\* atmosphere and in hot, humid air at 100 hPa
\* ------------------------------------------------------------------------
thinAir == [temperature |-> 8000, pressure |-> 10000, humidity |-> 100]

InitLateral ==
  \E in \in {<<eldxG7Profile, Wind(5000, 90), Metres(100)>>,
             <<eldxG7Profile, createStandardEnvironment(5000, 90, thinAir), Metres(100)>>,
             <<zeroVelProfile, Wind(5000, 90), Metres(100)>>} :
     InitWith(in[1], in[2], <<in[3]>>)

SpecLateral == InitLateral /\ [][Next]_vars

\* drag * dt / vRel <= 1 for the step taken from the state s
DragFactorAtMostOne(s, vRel) ==
  /\ ~IsNaN(vRel)
  /\ vRel > 0
  /\ DeltaV(calculateDrag(vRel,
                          getBCForVelocity(profile.ammunition, vRel,
                                           EffectiveDragModel(profile)),
                          airDensity, speedOfSound, EffectiveDragModel(profile)),
            StepSize(vRel, speedOfSound)) <= vRel
\* 0 <= vz <= c and 0 <= z <= c * t
WithinCrossWind(s, c) ==
  /\ 0 <= s.vz /\ s.vz <= c
  /\ 0 <= s.z /\ s.z <= MulDiv(c, s.t \div 10^2, 10^6)

\* C28: with a crosswind component c >= 0 and a drag factor
\* drag * dt / vRel <= 1 the lateral velocity never overshoots the
\* crosswind: a step from a state with 0 <= vz <= c and 0 <= z <= c * t
\* leads to such a state, and the main loop starts in one.
C28_NoLateralOvershoot ==
  [][/\ (pc = "zero" /\ pc' = "main" /\ CrossWind(environment) >= 0) =>
         WithinCrossWind(st', CrossWind(environment))
     /\ (/\ MainStepped
         /\ CrossWind(environment) >= 0
         /\ DragFactorAtMostOne(st, RelativeSpeed(st))
         /\ WithinCrossWind(st, CrossWind(environment))) =>
         WithinCrossWind(st', CrossWind(environment))]_vars
\* ------------------------------------------------------------------------
\* AppProvider: the initial load (AppContext.tsx, loadInitialData).
\* load.pc is "idle" before the effect has run, "racing" while
\* loadInitialData awaits Promise.race, and "done" after its finally block;
\* load.loadData is the position of the inner loadData ("reading" while it
\* awaits Promise.all, "writing" while it awaits setActiveProfileIdInStorage,
\* then "resolved" or "rejected"); load.timer is the 5000 ms timer and
\* load.error what the catch block has caught.  A promise's continuations
\* are microtasks, so they run in the step that settles the promise.
\* ------------------------------------------------------------------------
Reads ==
  {"loadProfiles", "loadSettings", "isOnboardingComplete", "getActiveProfileId"}

\* the readers of storage.ts: the stored item, or the default when
\* AsyncStorage.getItem or JSON.parse throws (ok = FALSE)
loadProfiles(ok) == IF ok THEN storage.profiles ELSE << >>
loadSettings(ok) == IF ok THEN storage.settings ELSE DEFAULT_SETTINGS
isOnboardingComplete(ok) == IF ok THEN storage.onboardingComplete ELSE FALSE
getActiveProfileId(ok) == IF ok THEN storage.activeProfileId ELSE NoProfile

Contains(list, id) == \E k \in 1..Len(list) : list[k] = id

\* the finally block of loadInitialData runs once, when the race settles
Settled(l, err) ==
  IF l.pc = "racing" THEN [l EXCEPT !.pc = "done", !.error = err] ELSE l

\* loadInitialData up to its await: the timer is set and the four reads
\* are started
StartLoad ==
  /\ load.pc = "idle"
  /\ isLoading' = TRUE
  /\ load' = [NoLoad EXCEPT !.pc = "racing", !.timer = "armed",
                            !.loadData = "reading", !.pending = Reads]
  /\ UNCHANGED <<trajVars, fcall, fret, profiles, activeProfile,
                 onboardingComplete, settings, storage, adds>>

\* loadData after Promise.all: the state is set from what was read, and the
\* first profile becomes the active one when none is stored
AfterReads(got) ==
  LET loaded == got.loadedProfiles
      writes == got.activeId = NoProfile /\ loaded # << >>
      l == [got EXCEPT !.loadData = IF writes THEN "writing" ELSE "resolved"]
  IN  /\ profiles' = loaded
      /\ settings' = got.loadedSettings
      /\ onboardingComplete' = got.loadedOnboardingComplete
      /\ activeProfile' =
           IF got.activeId # NoProfile
           THEN IF Contains(loaded, got.activeId) THEN got.activeId
                ELSE IF loaded # << >> THEN Head(loaded) ELSE NoProfile
           ELSE IF loaded # << >> THEN Head(loaded) ELSE activeProfile
      /\ load' = IF writes THEN l ELSE Settled(l, "none")
      /\ isLoading' = IF ~writes /\ got.pc = "racing" THEN FALSE ELSE isLoading

\* one of the four reads returns; the last one lets loadData go on
ReadReturns(r, ok) ==
  /\ load.loadData = "reading"
  /\ r \in load.pending
  /\ LET got == [load EXCEPT
                   !.pending = @ \ {r},
                   !.loadedProfiles =
                      IF r = "loadProfiles" THEN loadProfiles(ok) ELSE @,
                   !.loadedSettings =
                      IF r = "loadSettings" THEN loadSettings(ok) ELSE @,
                   !.loadedOnboardingComplete =
                      IF r = "isOnboardingComplete"
                      THEN isOnboardingComplete(ok) ELSE @,
                   !.activeId =
                      IF r = "getActiveProfileId"
                      THEN getActiveProfileId(ok) ELSE @]
     IN  IF got.pending = {}
         THEN AfterReads(got)
         ELSE /\ load' = got
              /\ UNCHANGED <<isLoading, profiles, activeProfile,
                             onboardingComplete, settings>>
  /\ UNCHANGED <<trajVars, fcall, fret, storage, adds>>

\* setActiveProfileIdInStorage returns or throws; loadData ends with it
WriteReturns(ok) ==
  /\ load.loadData = "writing"
  /\ storage' = IF ok
                THEN [storage EXCEPT !.activeProfileId = Head(load.loadedProfiles)]
                ELSE storage
  /\ load' = Settled([load EXCEPT !.loadData = IF ok THEN "resolved" ELSE "rejected"],
                     IF ok THEN "none" ELSE "Error setting active profile")
  /\ isLoading' = IF load.pc = "racing" THEN FALSE ELSE isLoading
  /\ UNCHANGED <<trajVars, fcall, fret, profiles, activeProfile,
                 onboardingComplete, settings, adds>>

\* the 5000 ms timer fires and rejects the timeout promise
TimeoutFires ==
  /\ load.timer = "armed"
  /\ load' = Settled([load EXCEPT !.timer = "fired"], "Loading timeout")
  /\ isLoading' = IF load.pc = "racing" THEN FALSE ELSE isLoading
  /\ UNCHANGED <<trajVars, fcall, fret, profiles, activeProfile,
                 onboardingComplete, settings, storage, adds>>

NextLoad ==
  \/ StartLoad
  \/ \E r \in Reads, ok \in BOOLEAN : ReadReturns(r, ok)
  \/ \E ok \in BOOLEAN : WriteReturns(ok)
  \/ TimeoutFires

\* what an earlier session can have left in AsyncStorage
englishSettings == [units |-> "moa", language |-> "en"]
StoredProfiles == {<< >>, <<1>>, <<1, 2>>}
Stored ==
  {[profiles |-> ps, activeProfileId |-> a, onboardingComplete |-> o,
    settings |-> s] :
     ps \in StoredProfiles, a \in {NoProfile, 1, 2}, o \in BOOLEAN,
     s \in {DEFAULT_SETTINGS, englishSettings}}
InitApp(stored) ==
  /\ TrajInit(basicG1Profile, noWind, << >>)
  /\ fcall = NoCall
  /\ fret = Undefined
  /\ AppInit(stored)
InitLoad ==
  \E stored \in Stored :
     /\ stored.activeProfileId = NoProfile
          \/ Contains(stored.profiles, stored.activeProfileId)
     /\ InitApp(stored)
SpecLoad == InitLoad /\ [][NextLoad]_vars

\* the effect runs after the first render and a timer that is set fires;
\* nothing makes a read or a write of AsyncStorage return
SpecLoadFair == SpecLoad /\ WF_vars(StartLoad) /\ WF_vars(TimeoutFires)

DefaultState ==
  /\ profiles = << >>
  /\ activeProfile = NoProfile
  /\ onboardingComplete = FALSE
  /\ settings = DEFAULT_SETTINGS

\* once loadInitialData has started, isLoading becomes false
EventuallyLoaded == (load.pc = "racing") ~> ~isLoading
\* isLoading is false once the timer has fired
LoadedWhenTimerFired == load.timer = "fired" => ~isLoading

\* C29: the initial load cannot leave the user stuck, and a load that
\* failed or timed out (its catch block ran) leaves the default state in
\* place: no profiles, no active profile, onboarding not complete, default
\* settings
C29_FailedLoadKeepsDefaults ==
  (load.pc = "done" /\ load.error # "none") => DefaultState

\* ------------------------------------------------------------------------
\* AppProvider: addProfile (AppContext.tsx) on top of addProfile of
\* storage.ts.  adds holds the calls made so far, each with the new
\* profile's id, the profiles value its callback has captured, the list it
\* has read and extended, and its position: "loading" (awaiting
\* loadProfiles), "saving" (awaiting saveProfiles), "activating" (awaiting
\* setActiveProfile), then "done", or "failed" when a write has thrown.
\* ------------------------------------------------------------------------
MaxCalls == 2

\* ids are unique, and differ from the ids 1 and 2 of the stored profiles
generateProfileId == Len(adds) + 3

\* addProfile up to its first await: the new profile is built and
\* loadProfiles is called
AddCalled ==
  /\ ~isLoading
  /\ Len(adds) < MaxCalls
  /\ adds' = Append(adds, [id |-> generateProfileId, pc |-> "loading",
                           captured |-> profiles, local |-> << >>,
                           readOk |-> TRUE])
  /\ UNCHANGED <<trajVars, fcall, fret, isLoading, profiles, activeProfile,
                 onboardingComplete, settings, storage, load>>

\* loadProfiles returns; the new profile is pushed and saveProfiles is
\* called with the list
AddLoaded(c, ok) ==
  /\ c \in 1..Len(adds)
  /\ adds[c].pc = "loading"
  /\ adds' = [adds EXCEPT ![c].local = Append(loadProfiles(ok), adds[c].id),
                          ![c].readOk = ok,
                          ![c].pc = "saving"]
  /\ UNCHANGED <<trajVars, fcall, fret, isLoading, profiles, activeProfile,
                 onboardingComplete, settings, storage, load>>

\* saveProfiles returns and the in-memory list is rebuilt from the captured
\* one, or saveProfiles throws and addProfile rejects
AddSaved(c, ok) ==
  /\ c \in 1..Len(adds)
  /\ adds[c].pc = "saving"
  /\ IF ok
     THEN LET updatedProfiles == Append(adds[c].captured, adds[c].id)
              first == Len(updatedProfiles) = 1
          IN  /\ storage' = [storage EXCEPT !.profiles = adds[c].local]
              /\ profiles' = updatedProfiles
              /\ activeProfile' = IF first THEN adds[c].id ELSE activeProfile
              /\ adds' = [adds EXCEPT ![c].pc =
                                         IF first THEN "activating" ELSE "done"]
     ELSE /\ adds' = [adds EXCEPT ![c].pc = "failed"]
          /\ UNCHANGED <<storage, profiles, activeProfile>>
  /\ UNCHANGED <<trajVars, fcall, fret, isLoading, onboardingComplete,
                 settings, load>>

\* setActiveProfileIdInStorage of setActiveProfile returns or throws
AddActivated(c, ok) ==
  /\ c \in 1..Len(adds)
  /\ adds[c].pc = "activating"
  /\ storage' = IF ok THEN [storage EXCEPT !.activeProfileId = adds[c].id]
                ELSE storage
  /\ adds' = [adds EXCEPT ![c].pc = IF ok THEN "done" ELSE "failed"]
  /\ UNCHANGED <<trajVars, fcall, fret, isLoading, profiles, activeProfile,
                 onboardingComplete, settings, load>>

NextAdd ==
  \/ AddCalled
  \/ \E c \in 1..MaxCalls, ok \in BOOLEAN : AddLoaded(c, ok)
  \/ \E c \in 1..MaxCalls, ok \in BOOLEAN : AddSaved(c, ok)
  \/ \E c \in 1..MaxCalls, ok \in BOOLEAN : AddActivated(c, ok)

\* the state after an initial load that has read everything: the state
\* holds what is stored, and the first stored profile is the active one
Loaded(stored) ==
  /\ TrajInit(basicG1Profile, noWind, << >>)
  /\ fcall = NoCall
  /\ fret = Undefined
  /\ isLoading = FALSE
  /\ profiles = stored.profiles
  /\ activeProfile = stored.activeProfileId
  /\ onboardingComplete = stored.onboardingComplete
  /\ settings = stored.settings
  /\ storage = stored
  /\ load = [NoLoad EXCEPT !.pc = "done", !.timer = "armed",
                           !.loadData = "resolved",
                           !.loadedProfiles = stored.profiles,
                           !.loadedSettings = stored.settings,
                           !.loadedOnboardingComplete = stored.onboardingComplete,
                           !.activeId = stored.activeProfileId]
  /\ adds = << >>
InitAdd ==
  \E stored \in Stored :
     /\ stored.activeProfileId =
          (IF stored.profiles = << >> THEN NoProfile ELSE Head(stored.profiles))
     /\ Loaded(stored)
SpecAdd == InitAdd /\ [][NextAdd]_vars

Completed(c) == c \in 1..Len(adds) /\ adds[c].pc = "done"
AllRead == \A c \in 1..Len(adds) : adds[c].readOk

\* C30: no profile is lost when profiles are added: every profile whose
\* addProfile has completed is in the stored list and in the in-memory
\* list, in every interleaving of the calls in which every read of the
\* stored list has succeeded
C30_NoProfileLost ==
  AllRead =>
    \A c \in 1..MaxCalls :
       Completed(c) => /\ Contains(storage.profiles, adds[c].id)
                       /\ Contains(profiles, adds[c].id)

====
